---------------------------- MODULE Spec2Model ----------------------------
(***************************************************************************)
(* Model of pdkit's TremorProcessor (src/pdkit/tremor_processor.py).       *)
(*                                                                         *)
(* Time is counted in integer ticks, TicksPerSecond of them to a second,   *)
(* so that every timestamp, bin edge and grid point of the model is exact  *)
(* (no floating-point rounding).  A sample of the magnitude channel is     *)
(* represented by the time at which the recorded waveform is read: the     *)
(* original sample i by td[i], an interpolated sample f(t) by t.  What the *)
(* numeric library answers for a waveform (the magnitudes of its FFT, its  *)
(* Welch periodogram) is carried with the frame as `content`.              *)
(***************************************************************************)
EXTENDS Integers, Sequences, FiniteSets, TLC

VARIABLES
    inp,        \* the arguments of the call under way
    out,        \* what the call gave back: a frame, or the exception raised
    amplitude,  \* self.amplitude of every processor instance
    frequency,  \* self.frequency of every processor instance
    pc,         \* the position of every caller (thread)
    log,        \* what logging.error has recorded
    hist        \* the calls that have ended (or what they returned), oldest first

vars == <<inp, out, amplitude, frequency, pc, log, hist>>

-----------------------------------------------------------------------------
(* Program constants.                                                      *)

SAMPLING_FREQUENCY == 100
CUTOFF_FREQUENCY_HIGH == 2
FILTER_ORDER == 2
WINDOW == 256
LOWER_FREQUENCY_TREMOR == 2
UPPER_FREQUENCY_TREMOR == 10

\* The resolution of the model's clock: half a default sampling period.
TicksPerSecond == 2 * SAMPLING_FREQUENCY

-----------------------------------------------------------------------------
(* Bounds of the model.                                                    *)

MaxLen == 6        \* samples of a frame handed to fft_signal
MaxWindow == 7     \* window sizes handed to fft_signal
MaxTick == 7       \* the latest tick of a raw recording handed to resample_signal
MaxPeriod == 4     \* the longest sampling period, in ticks, asked of resample_signal
MaxCalls == 2      \* calls of process on one processor
MaxFrame == 6      \* samples of a frame handed to the band extractors
MaxMag == 2        \* the largest magnitude of a spectral bin

-----------------------------------------------------------------------------
(* Exact rationals <<n, d>>, d > 0, in lowest terms.                       *)

RECURSIVE Gcd(_, _)
Gcd(a, b) == IF b = 0 THEN a ELSE Gcd(b, a % b)

Abs(x) == IF x < 0 THEN -x ELSE x

Rat(n, d) ==
    LET g == Gcd(Abs(n), Abs(d))
        s == IF d < 0 THEN -1 ELSE 1
    IN  <<(s * n) \div g, (s * d) \div g>>

RatLess(a, b) == a[1] * b[2] < b[1] * a[2]
RatAdd(a, b) == Rat(a[1] * b[2] + b[1] * a[2], a[2] * b[2])
RatSub(a, b) == Rat(a[1] * b[2] - b[1] * a[2], a[2] * b[2])

Min(a, b) == IF a < b THEN a ELSE b
Max(a, b) == IF a > b THEN a ELSE b

-----------------------------------------------------------------------------
(* Python and numpy/pandas primitives the code relies on.                  *)

\* A numpy array or pandas column of the values f[1], ..., f[n], held in full.
Array(f) == f \o <<>>

\* int(x / 2) for an integer x: Python's int() truncates towards zero.
IntHalf(x) == IF x >= 0 THEN x \div 2 ELSE -((-x) \div 2)

\* The bounds of the positional slice s[lo:hi] of a sequence of n elements:
\* a negative bound counts from the end, and both are clamped to 0..n.
SliceBound(b, n) == IF b < 0 THEN Max(n + b, 0) ELSE Min(b, n)

Slice(s, lo, hi) ==
    LET a == SliceBound(lo, Len(s))
        b == SliceBound(hi, Len(s))
    IN  IF a < b THEN SubSeq(s, a + 1, b) ELSE <<>>

\* The length of the element-wise product of two numpy vectors of m and n
\* elements; -1 when the shapes do not broadcast (ValueError).
BroadcastLen(m, n) ==
    IF m = n THEN m
    ELSE IF m = 1 THEN n
    ELSE IF n = 1 THEN m
    ELSE -1

Raised(kind, stage) == [err |-> kind, stage |-> stage]
IsError(r) == "err" \in DOMAIN r

-----------------------------------------------------------------------------------------------------------------------------------------------------
(* resample_signal                                                         *)

\* 1 / sampling_frequency, in ticks.
Period(sampling_frequency) == TicksPerSecond \div sampling_frequency

\* data_frame.resample(rule): left-closed bins of one period each, aligned
\* to the start of the day, from the bin of the first row to the bin of the
\* last.  The bin of tick t, counted from the first bin:
BinOf(index, step, t) == (t \div step) - (index[1] \div step)

BinCount(index, step) ==
    IF Len(index) = 0 THEN 0 ELSE BinOf(index, step, index[Len(index)]) + 1

BinLabels(index, step) ==
    Array([b \in 1..BinCount(index, step) |-> ((index[1] \div step) + (b - 1)) * step])

\* np.arange(start, stop, step): ceil((stop - start) / step) points, the stop
\* excluded.
ArangeLen(start, stop, step) ==
    IF stop <= start THEN 0 ELSE (stop - start + step - 1) \div step

Arange(start, stop, step) ==
    Array([k \in 1..ArangeLen(start, stop, step) |-> start + (k - 1) * step])

NaN == <<0, 0>>

RECURSIVE SumOver(_, _)
SumOver(f, S) ==
    IF S = {} THEN 0
    ELSE LET i == CHOOSE x \in S : TRUE IN f[i] + SumOver(f, S \ {i})

\* .mean() of a column over the rows of each bin; NaN for a bin with no row.
BinMeans(index, values, step) ==
    Array([b \in 1..BinCount(index, step) |->
        LET rows == {i \in 1..Len(index) : BinOf(index, step, index[i]) = b - 1}
        IN  IF rows = {} THEN NaN
            ELSE Rat(SumOver(values, rows), Cardinality(rows))])

\* .interpolate(method='linear'): a NaN between two known rows lies on the
\* straight line between them, the rows taken as equally spaced; a NaN after
\* the last known row repeats it, one before the first known row stays.
Known(col) == {i \in 1..Len(col) : col[i] # NaN}

Filled(col, known, p) ==
    LET before == {i \in known : i <= p}
        after == {j \in known : j >= p}
    IN  IF before = {} THEN NaN
        ELSE LET i == CHOOSE x \in before : \A y \in before : y <= x
             IN  IF after = {} THEN col[i]
                 ELSE LET j == CHOOSE x \in after : \A y \in after : x <= y
                          rise == RatSub(col[j], col[i])
                      IN  IF i = j THEN col[p]
                          ELSE RatAdd(col[i], Rat(rise[1] * (p - i), rise[2] * (j - i)))

InterpolateKnown(col, known) == Array([p \in 1..Len(col) |-> Filled(col, known, p)])

Interpolate(col) == InterpolateKnown(col, Known(col))

resample_signal(data_frame, sampling_frequency) ==
    LET step == Period(sampling_frequency)
        n == Len(data_frame.index)
        bins == BinCount(data_frame.index, step)
        new_timestamp == Arange(data_frame.td[1], data_frame.td[n], step)
    IN  IF ~data_frame.wellFormed
        THEN Raised("TypeError", "resample_signal")       \* .resample
        ELSE IF n = 0
        THEN Raised("ValueError", "resample_signal")      \* interp1d of no points
        ELSE IF Len(new_timestamp) # bins
        THEN Raised("ValueError", "resample_signal")      \* column assignment
        ELSE [index |-> BinLabels(data_frame.index, step),
              td |-> Interpolate(BinMeans(data_frame.index, data_frame.td, step)),
              mag_sum_acc |-> new_timestamp,
              content |-> data_frame.content]

-----------------------------------------------------------------------------
(* filter_signal                                                           *)

\* signal.butter(N, Wn, 'high') accepts a digital cutoff Wn = num / den only
\* when 0 < Wn < 1.
ValidCutoff(num, den) == 0 < num /\ num < den

\* signal.lfilter(b, a, x): a causal filter, output i drawn from inputs 1..i.
Lfilter(x) == Array([i \in 1..Len(x) |-> [at |-> x[i], taps |-> i]])

\* The rate that normalises the cutoff.
NormalisingRate(data_frame) == SAMPLING_FREQUENCY

filter_signal(data_frame, cutoff_frequency, filter_order) ==
    IF ~ValidCutoff(2 * cutoff_frequency, NormalisingRate(data_frame))
    THEN Raised("ValueError", "filter_signal")
    ELSE [index |-> data_frame.index,
          td |-> data_frame.td,
          mag_sum_acc |-> data_frame.mag_sum_acc,
          filtered_signal |-> Lfilter(data_frame.mag_sum_acc),
          content |-> data_frame.content]

-----
(* fft_signal                                                              *)

\* The centred excerpt's bounds.
\* (Integer division of each half, as "/" divides two ints in Python 2.)
WindowLeftFloorHalves(signal_length, window) == (signal_length \div 2) - (window \div 2)

WindowLeft(signal_length, window) == IntHalf(signal_length - window)
WindowRight(signal_length, window) == IntHalf(signal_length + window)

\* (A frame built without comparing the value columns with the index.)
FrameLengthsAgreeUnchecked(n_values, n_dt, n_index) == n_dt = n_index

\* pd.DataFrame(data, index=...): every column is as long as the index.
FrameLengthsAgree(n_values, n_dt, n_index) == n_values = n_index /\ n_dt = n_index

\* What the numeric library answers for a waveform: `content` lists, bin by
\* bin, the magnitude of its spectrum (0 beyond the bins listed).
ContentAt(content, k) == IF k <= Len(content) THEN content[k] ELSE 0

\* fft(msa_window): the magnitudes |X[k]| of the n bins of an n-point excerpt.
Transformed(content, n) == Array([k \in 1..n |-> ContentAt(content, k)])

fft_signal(data_frame, window) ==
    LET signal_length == Len(data_frame.filtered_signal)
        ll == WindowLeft(signal_length, window)
        rr == WindowRight(signal_length, window)
        msa == Slice(data_frame.filtered_signal, ll, rr)
        n == BroadcastLen(Len(msa), window)
        dt == Slice(data_frame.td, ll, rr)
        index == Slice(data_frame.index, ll, rr)
    IN  IF n < 0 THEN Raised("ValueError", "fft_signal")      \* msa * hann_window
        ELSE IF n = 0 THEN Raised("ValueError", "fft_signal") \* fft of no points
        ELSE IF ~FrameLengthsAgree(n, Len(dt), Len(index))
             THEN Raised("ValueError", "fft_signal")          \* pd.DataFrame
        ELSE [index |-> index,
              filtered_signal |-> IF Len(msa) = n THEN msa ELSE Array([k \in 1..n |-> msa[1]]),
              transformed_signal |-> Transformed(data_frame.content, n),
              dt |-> dt]

-----------------------------------------------------------------------------------------------------------------------------------------------------
(* tremor_amplitude and tremor_amplitude_by_welch                          *)

\* The index of the first largest element of a non-empty sequence (argmax).
ArgMax(s) ==
    CHOOSE i \in 1..Len(s) :
        /\ \A j \in 1..Len(s) : s[j] <= s[i]
        /\ \A j \in 1..(i - 1) : s[j] < s[i]

\* (A band that takes in the bins lying on its bounds.)
InBandInclusive(frq, lower_frequency, upper_frequency) ==
    /\ ~RatLess(frq, Rat(lower_frequency, 1))
    /\ ~RatLess(Rat(upper_frequency, 1), frq)

\* (frq > lower_frequency) & (frq < upper_frequency), bin by bin.
InBand(frq, lower_frequency, upper_frequency) ==
    /\ RatLess(Rat(lower_frequency, 1), frq)
    /\ RatLess(frq, Rat(upper_frequency, 1))

\* sum(values[mask]) over the entries lo..hi: Python's sum, 0 for no values.
RECURSIVE MaskedSumOver(_, _, _, _)
MaskedSumOver(values, mask, lo, hi) ==
    IF lo > hi THEN 0
    ELSE IF lo = hi THEN (IF mask[lo] THEN values[lo] ELSE 0)
    ELSE LET mid == (lo + hi) \div 2
         IN  MaskedSumOver(values, mask, lo, mid) + MaskedSumOver(values, mask, mid + 1, hi)

MaskedSum(values, mask, n) == MaskedSumOver(values, mask, 1, n)

\* (The peak looked up among the bins of the band only.)
tremor_amplitude_PeakInBand(data_frame, lower_frequency, upper_frequency) ==
    LET signal_length == Len(data_frame.filtered_signal)
        half == IntHalf(signal_length)
        frq == [k \in 1..half |-> Rat((k - 1) * SAMPLING_FREQUENCY, signal_length)]
        mask == [k \in 1..half |-> InBand(frq[k], lower_frequency, upper_frequency)]
        ts == [k \in 1..half |-> data_frame.transformed_signal[k]]
        banded == [k \in 1..half |-> IF mask[k] THEN ts[k] ELSE 0]
        amp == IF half = 0 THEN Rat(0, 1)
               ELSE Rat(MaskedSum(ts, mask, half), signal_length)
    IN  IF half = 0
        THEN [amplitude |-> amp, raised |-> TRUE, err |-> "ValueError"]
        ELSE [amplitude |-> amp, frequency |-> frq[ArgMax(banded)], raised |-> FALSE]

\* The fields tremor_amplitude leaves behind, and whether it raised.  The
\* amplitude is assigned before the peak is looked up.
tremor_amplitude(data_frame, lower_frequency, upper_frequency) ==
    LET signal_length == Len(data_frame.filtered_signal)
        half == IntHalf(signal_length)
        frq == [k \in 1..half |-> Rat((k - 1) * SAMPLING_FREQUENCY, signal_length)]
        ts == [k \in 1..half |-> data_frame.transformed_signal[k]]
        mask == [k \in 1..half |-> InBand(frq[k], lower_frequency, upper_frequency)]
        amp == IF half = 0 THEN Rat(0, 1)
               ELSE Rat(MaskedSum(ts, mask, half), signal_length)
    IN  IF half = 0
        THEN [amplitude |-> amp, raised |-> TRUE, err |-> "ValueError"]
        ELSE [amplitude |-> amp, frequency |-> frq[ArgMax(ts)], raised |-> FALSE]

\* signal.welch(x, fs, nperseg=window): a segment is never longer than x.
SegmentLength(n, window) == Min(n, window)

\* The one-sided periodogram of nperseg-point segments: bin k at k*fs/nperseg.
WelchBins(nperseg) == IF nperseg = 0 THEN 0 ELSE nperseg \div 2 + 1

Periodogram(content, nperseg) ==
    [k \in 1..WelchBins(nperseg) |-> ContentAt(content, k) * ContentAt(content, k)]

\* (The Welch strategy with its assignment to self.amplitude left out.)
tremor_amplitude_by_welch_FrequencyOnly(data_frame, window, lower_frequency, upper_frequency) ==
    LET nperseg == SegmentLength(Len(data_frame.filtered_signal), window)
        bins == WelchBins(nperseg)
        frq == [k \in 1..bins |-> Rat((k - 1) * SAMPLING_FREQUENCY, nperseg)]
        Pxx_den == Periodogram(data_frame.content, nperseg)
    IN  IF bins = 0
        THEN [raised |-> TRUE, err |-> "ValueError"]
        ELSE [frequency |-> frq[ArgMax(Pxx_den)], raised |-> FALSE]

tremor_amplitude_by_welch(data_frame, window, lower_frequency, upper_frequency) ==
    LET nperseg == SegmentLength(Len(data_frame.filtered_signal), window)
        bins == WelchBins(nperseg)
        frq == [k \in 1..bins |-> Rat((k - 1) * SAMPLING_FREQUENCY, nperseg)]
        Pxx_den == Periodogram(data_frame.content, nperseg)
        mask == [k \in 1..bins |-> InBand(frq[k], lower_frequency, upper_frequency)]
    IN  IF bins = 0
        THEN [raised |-> TRUE, err |-> "ValueError"]
        ELSE [amplitude |-> Rat(MaskedSum(Pxx_den, mask, bins), 1),
              frequency |-> frq[ArgMax(Pxx_den)], raised |-> FALSE]

\* self.amplitude and self.frequency after a strategy has run on processor p.
Stored(field, p, r, name) ==
    IF name \in DOMAIN r THEN [field EXCEPT ![p] = r[name]] ELSE field

-----------------------------------------------------------------------------
(* process                                                                 *)

\* The strategy the method selects, run on the filtered frame.
Strategy(data_frame_filtered, method) ==
    IF IsError(data_frame_filtered) THEN data_frame_filtered
    ELSE IF method = "fft"
    THEN LET data_frame_fft == fft_signal(data_frame_filtered, WINDOW)
         IN  IF IsError(data_frame_fft) THEN data_frame_fft
             ELSE tremor_amplitude(data_frame_fft,
                                   LOWER_FREQUENCY_TREMOR, UPPER_FREQUENCY_TREMOR)
    ELSE tremor_amplitude_by_welch(data_frame_filtered, WINDOW,
                                   LOWER_FREQUENCY_TREMOR, UPPER_FREQUENCY_TREMOR)

Filtered(data_frame_resampled) ==
    IF IsError(data_frame_resampled) THEN data_frame_resampled
    ELSE filter_signal(data_frame_resampled, CUTOFF_FREQUENCY_HIGH, FILTER_ORDER)

\* The body of the try block: every stage with its default parameters, up to
\* the first one that raises.
Stages(data_frame, method) ==
    Strategy(Filtered(resample_signal(data_frame, SAMPLING_FREQUENCY)), method)

\* except ValueError as verr: the handler reads verr.message, which no
\* exception of Python 3 has, so it raises AttributeError before it logs,
\* and that error leaves process.
ExceptValueError(failure) ==
    [outcome |-> "raised",
     raised |-> Raised("AttributeError", "process"),
     failure |-> failure,
     logged |-> <<>>]

\* The bare except: the error is logged and process returns as usual.
ExceptAny(failure) ==
    [outcome |-> "returned",
     failure |-> failure,
     logged |-> <<"Unexpected error on TremorProcessor process">>]

\* What a call of process comes to: how it ends, what it logs, and the fields
\* its strategy assigned (in `fields`, also when the strategy raised later).
Ended(r) ==
    IF ~IsError(r) THEN [outcome |-> "returned", fields |-> r, logged |-> <<>>]
    ELSE [fields |-> r] @@
         (IF r.err = "ValueError" THEN ExceptValueError(r) ELSE ExceptAny(r))

process(data_frame, method) == Ended(Stages(data_frame, method))

-----
(* Frames a caller can hand to the stages directly.                        *)

None == [none |-> TRUE]

\* A filtered frame of n rows, step ticks apart, the first at tick `first`.
UniformFrame(n, first, step, content) ==
    [index |-> Array([i \in 1..n |-> first + (i - 1) * step]),
     td |-> Array([i \in 1..n |-> Rat((i - 1) * step, 1)]),
     mag_sum_acc |-> Array([i \in 1..n |-> (i - 1) * step]),
     filtered_signal |-> Lfilter([i \in 1..n |-> (i - 1) * step]),
     content |-> content]

Main == "main"
Self == "tp"

Idle == [t \in {Main} |-> "ready"]
Fresh == [p \in {Self} |-> Rat(0, 1)]

-----------------------------------------------------------------------------
(* Specification SpecFft: fft_signal called on a frame and a window size.  *)

InitFft ==
    /\ inp \in
        {[op |-> "fft_signal",
          data_frame |-> UniformFrame(n, first, Period(SAMPLING_FREQUENCY), <<>>),
          window |-> w] : n \in 0..MaxLen, w \in 0..MaxWindow, first \in {0, 1}}
    /\ out = None
    /\ amplitude = Fresh
    /\ frequency = Fresh
    /\ pc = Idle
    /\ log = <<>>
    /\ hist = <<>>

FftSignal ==
    /\ pc[Main] = "ready"
    /\ inp.op = "fft_signal"
    /\ out' = fft_signal(inp.data_frame, inp.window)
    /\ pc' = [pc EXCEPT ![Main] = "done"]
    /\ UNCHANGED <<inp, amplitude, frequency, log, hist>>

NextFft == FftSignal

SpecFft == InitFft /\ [][NextFft]_vars

FftDone == pc[Main] = "done" /\ inp.op = "fft_signal"

FftLen == Len(inp.data_frame.filtered_signal)

\* C5: whenever window_size > len(filtered_signal), len = 0 and len = 1
\* included, fft_signal raises and returns no spectral frame.
C5_WindowLongerThanSignalFails ==
    (FftDone /\ inp.window > FftLen) => (IsError(out) /\ out.err = "ValueError")

\* C5 witness: a one-sample signal and a window of two: the lone sample
\* broadcasts against the Hann window, and only the frame's constructor fails.
C5_Witness ==
    /\ FftDone /\ FftLen = 1 /\ inp.window = 2
    /\ IsError(out)

\* C10: for 1 <= window_size <= len the excerpt is rows floor(len/2 - w/2)
\* up to but excluding floor(len/2 + w/2): window_size samples, all inside
\* the signal, and dt is td at those same rows, unchanged.
C10_CentredExcerpt ==
    (FftDone /\ 1 <= inp.window /\ inp.window <= FftLen) =>
        LET lo == (FftLen - inp.window) \div 2
            hi == (FftLen + inp.window) \div 2
        IN  /\ ~IsError(out)
            /\ 0 <= lo /\ hi <= FftLen /\ hi - lo = inp.window
            /\ Len(out.filtered_signal) = inp.window
            /\ Len(out.dt) = inp.window
            /\ \A k \in 1..inp.window :
                    /\ out.filtered_signal[k] = inp.data_frame.filtered_signal[lo + k]
                    /\ out.dt[k] = inp.data_frame.td[lo + k]
                    /\ out.index[k] = inp.data_frame.index[lo + k]

\* C10 witness: an odd window cut from an even-length signal.
C10_Witness ==
    /\ FftDone /\ FftLen = 4 /\ inp.window = 3
    /\ ~IsError(out) /\ Len(out.dt) = 3
    /\ out.dt[1] = inp.data_frame.td[1]

-----------------------------------------------------------------------------
(* Specification SpecStages: resample_signal called on a raw recording,    *)
(* then filter_signal on the frame it returned.                            *)

RECURSIVE Sorted(_)
Sorted(S) ==
    IF S = {} THEN <<>>
    ELSE LET m == CHOOSE x \in S : \A y \in S : x <= y
         IN  <<m>> \o Sorted(S \ {m})

\* The frame load_data gives for samples taken at the ticks of `index`: td
\* is the time since the first sample, and the magnitude channel holds the
\* waveform as read at each td.
Recording(index, wellFormed, content) ==
    [wellFormed |-> wellFormed,
     index |-> index,
     td |-> Array([i \in 1..Len(index) |-> index[i] - index[1]]),
     mag_sum_acc |-> Array([i \in 1..Len(index) |-> index[i] - index[1]]),
     content |-> content]

\* The sampling rates whose period is a whole number of ticks, up to MaxPeriod.
Rates ==
    {r \in 1..TicksPerSecond : TicksPerSecond % r = 0 /\ TicksPerSecond \div r <= MaxPeriod}

\* Cutoffs around the Nyquist frequency of every rate, and the default.
Cutoffs == {CUTOFF_FREQUENCY_HIGH} \cup {r \div 2 + d : r \in Rates, d \in {-1, 0, 1}}

InitStages ==
    /\ inp \in
        {[op |-> "resample_signal",
          data_frame |-> Recording(Sorted(T), TRUE, <<>>),
          sampling_frequency |-> r,
          cutoff_frequency |-> c] : T \in SUBSET (0..MaxTick), r \in Rates, c \in Cutoffs}
    /\ out = None
    /\ amplitude = Fresh
    /\ frequency = Fresh
    /\ pc = Idle
    /\ log = <<>>
    /\ hist = <<>>

ResampleSignal ==
    /\ pc[Main] = "ready"
    /\ inp.op = "resample_signal"
    /\ out' = resample_signal(inp.data_frame, inp.sampling_frequency)
    /\ pc' = [pc EXCEPT ![Main] = IF IsError(out') THEN "done" ELSE "resampled"]
    /\ UNCHANGED <<inp, amplitude, frequency, log, hist>>

FilterSignal ==
    /\ pc[Main] = "resampled"
    /\ hist' = <<out>>
    /\ out' = filter_signal(out, inp.cutoff_frequency, FILTER_ORDER)
    /\ pc' = [pc EXCEPT ![Main] = "filtered"]
    /\ UNCHANGED <<inp, amplitude, frequency, log>>

NextStages == ResampleSignal \/ FilterSignal

SpecStages == InitStages /\ [][NextStages]_vars

Resampled == inp.op = "resample_signal" /\ pc[Main] \in {"resampled", "done"}

RawLen == Len(inp.data_frame.index)

\* The raw recording is already uniform at the rate asked for.
AlreadyUniform ==
    \A i \in 1..(RawLen - 1) :
        inp.data_frame.index[i + 1] - inp.data_frame.index[i] = Period(inp.sampling_frequency)

\* C6 as stated: a cutoff at or above half the rate the frame was resampled
\* at makes filter_signal raise and write no filtered_signal channel, and
\* the cutoff is normalised by that rate.
C6_Original_CutoffAboveNyquistFails ==
    (pc[Main] = "filtered" /\ 2 * inp.cutoff_frequency >= inp.sampling_frequency) =>
        /\ IsError(out)
        /\ "filtered_signal" \notin DOMAIN out
        /\ NormalisingRate(hist[1]) = inp.sampling_frequency

\* C7 as stated: for at least 2 samples at strictly increasing times and a
\* rate R, the frame resample_signal returns has rows exactly 1/R apart, in
\* its index and in its td channel, and span / (1/R) of them.
\* (The count is read up to rounding: the span holds more than n - 1 and at
\* most n periods.)
C7_Original_UniformSpacing ==
    (Resampled /\ RawLen >= 2 /\ ~IsError(out)) =>
        LET step == Period(inp.sampling_frequency)
            span == inp.data_frame.index[RawLen] - inp.data_frame.index[1]
        IN  /\ \A i \in 1..(Len(out.index) - 1) :
                   /\ out.index[i + 1] - out.index[i] = step
                   /\ RatSub(out.td[i + 1], out.td[i]) = Rat(step, 1)
            /\ (Len(out.index) - 1) * step < span
            /\ span <= Len(out.index) * step

\* C8 as stated: a recording already uniform at rate R goes through
\* resample_signal at R without error, and comes back with the same N
\* timestamps and the same magnitudes.
C8_Original_Idempotent ==
    (Resampled /\ RawLen >= 2 /\ AlreadyUniform) =>
        /\ ~IsError(out)
        /\ Len(out.td) = RawLen
        /\ \A i \in 1..RawLen :
               /\ out.td[i] = Rat(inp.data_frame.td[i], 1)
               /\ out.mag_sum_acc[i] = inp.data_frame.mag_sum_acc[i]

-----------------------------------------------------------------------------
(* Specification SpecBand: the two band extractors called on a frame.      *)

\* The magnitudes of the spectrum of n real samples: bin k and bin n - k
\* are equal.
Spectra(n) ==
    {[k \in 1..n |-> h[Min(k - 1, n - (k - 1))]] : h \in [0..(n \div 2) -> 0..MaxMag]}

\* What the library can answer for the periodogram of nperseg-point
\* segments of a waveform.
Contents(nperseg) == [1..WelchBins(nperseg) -> 0..MaxMag]

\* A spectral frame of n samples, as fft_signal returns them.
SpectralFrame(mags) ==
    [index |-> [k \in 1..Len(mags) |-> (k - 1) * Period(SAMPLING_FREQUENCY)],
     filtered_signal |-> [k \in 1..Len(mags) |-> [at |-> k, taps |-> k]],
     transformed_signal |-> mags,
     dt |-> [k \in 1..Len(mags) |-> Rat((k - 1) * Period(SAMPLING_FREQUENCY), 1)]]

\* Whole band bounds, in Hz: the defaults, and every whole frequency on
\* which a bin of some frame of the model falls.
BandEdges ==
    {LOWER_FREQUENCY_TREMOR, UPPER_FREQUENCY_TREMOR} \cup
    {f \in 0..SAMPLING_FREQUENCY :
        \E n \in 1..MaxFrame : \E k \in 0..(n \div 2) : k * SAMPLING_FREQUENCY = f * n}

\* The bands tried: every band between two edges, an empty one (both
\* bounds equal) included, and the default bounds in reverse.
Bands ==
    {b \in BandEdges \X BandEdges : b[1] <= b[2]} \cup
    {<<UPPER_FREQUENCY_TREMOR, LOWER_FREQUENCY_TREMOR>>}

InitBand ==
    /\ inp \in
        {[op |-> "tremor_amplitude", data_frame |-> SpectralFrame(m),
          lower_frequency |-> band[1], upper_frequency |-> band[2]] :
            m \in UNION {Spectra(n) : n \in 0..MaxFrame}, band \in Bands}
        \cup
        {[op |-> "tremor_amplitude_by_welch",
          data_frame |-> UniformFrame(x[1], 0, Period(SAMPLING_FREQUENCY), x[3]),
          window |-> x[2], lower_frequency |-> band[1], upper_frequency |-> band[2]] :
            x \in UNION {UNION {{<<n, w, c>> : c \in Contents(Min(n, w))} :
                                    n \in {0, w, MaxFrame}} : w \in 1..MaxFrame},
            band \in Bands}
    /\ out = None
    /\ amplitude = Fresh
    /\ frequency = Fresh
    /\ pc = Idle
    /\ log = <<>>
    /\ hist = <<>>

TremorAmplitude ==
    /\ pc[Main] = "ready"
    /\ inp.op = "tremor_amplitude"
    /\ LET r == tremor_amplitude(inp.data_frame, inp.lower_frequency, inp.upper_frequency)
       IN  /\ out' = r
           /\ amplitude' = Stored(amplitude, Self, r, "amplitude")
           /\ frequency' = Stored(frequency, Self, r, "frequency")
    /\ pc' = [pc EXCEPT ![Main] = "done"]
    /\ UNCHANGED <<inp, log, hist>>

TremorAmplitudeByWelch ==
    /\ pc[Main] = "ready"
    /\ inp.op = "tremor_amplitude_by_welch"
    /\ LET r == tremor_amplitude_by_welch(inp.data_frame, inp.window,
                                          inp.lower_frequency, inp.upper_frequency)
       IN  /\ out' = r
           /\ amplitude' = Stored(amplitude, Self, r, "amplitude")
           /\ frequency' = Stored(frequency, Self, r, "frequency")
    /\ pc' = [pc EXCEPT ![Main] = "done"]
    /\ UNCHANGED <<inp, log, hist>>

NextBand == TremorAmplitude \/ TremorAmplitudeByWelch

SpecBand == InitBand /\ [][NextBand]_vars

BandDone == pc[Main] = "done" /\ inp.op \in {"tremor_amplitude", "tremor_amplitude_by_welch"}

\* The one-sided spectrum the call reads: its number of bins, the frame or
\* segment length that spaces them, and each bin's magnitude or power.
OneSidedBins ==
    IF inp.op = "tremor_amplitude"
    THEN Len(inp.data_frame.filtered_signal) \div 2
    ELSE WelchBins(Min(Len(inp.data_frame.filtered_signal), inp.window))

BinSpacingLen ==
    IF inp.op = "tremor_amplitude"
    THEN Len(inp.data_frame.filtered_signal)
    ELSE Min(Len(inp.data_frame.filtered_signal), inp.window)

BinValue(k) ==
    IF inp.op = "tremor_amplitude"
    THEN inp.data_frame.transformed_signal[k + 1]
    ELSE ContentAt(inp.data_frame.content, k + 1) * ContentAt(inp.data_frame.content, k + 1)

\* The bins k whose frequency k * fs / n lies strictly inside the band.
StrictlyInside ==
    {k \in 0..(OneSidedBins - 1) :
        /\ inp.lower_frequency * BinSpacingLen < k * SAMPLING_FREQUENCY
        /\ k * SAMPLING_FREQUENCY < inp.upper_frequency * BinSpacingLen}

OnABound ==
    {k \in 0..(OneSidedBins - 1) :
        \/ inp.lower_frequency * BinSpacingLen = k * SAMPLING_FREQUENCY
        \/ inp.upper_frequency * BinSpacingLen = k * SAMPLING_FREQUENCY}

RECURSIVE BinSum(_)
BinSum(S) ==
    IF S = {} THEN 0
    ELSE LET k == CHOOSE x \in S : TRUE IN BinValue(k) + BinSum(S \ {k})

BandSumIs(S) ==
    amplitude[Self] =
        IF inp.op = "tremor_amplitude" THEN Rat(BinSum(S), BinSpacingLen)
        ELSE Rat(BinSum(S), 1)

\* C3 as stated: for every spectrum and band, no error is raised and the
\* amplitude is the sum over the bins strictly inside the band, 0 for none.
C3_Original_StrictBandSum ==
    BandDone =>
        /\ ~out.raised
        /\ BandSumIs(StrictlyInside)
        /\ (StrictlyInside = {} => amplitude[Self] = Rat(0, 1))

\* C3 amended: for every spectrum of at least one one-sided bin and every
\* band, no error is raised and the amplitude is the sum of the magnitudes
\* (FFT) or powers (Welch) of exactly the bins with low_hz < f < high_hz; a
\* bin on a bound is left out, and with no bin inside the amplitude is 0.
C3_StrictBandSum ==
    (BandDone /\ OneSidedBins >= 1) =>
        /\ ~out.raised
        /\ BandSumIs(StrictlyInside)
        /\ (StrictlyInside = {} => amplitude[Self] = Rat(0, 1))

\* C3 witness: a bin of non-zero magnitude lies exactly on a bound of the
\* band, another strictly inside, and the amplitude counts only the latter.
C3_Witness ==
    /\ BandDone /\ ~out.raised
    /\ \E k \in OnABound : BinValue(k) > 0
    /\ StrictlyInside # {}
    /\ amplitude[Self] # Rat(0, 1)
    /\ BandSumIs(StrictlyInside)

\* C4: the reported frequency is that of the first largest bin of the whole
\* one-sided spectrum, bins 0 to window_size/2 - 1 for the FFT variant,
\* whatever the band: the band bounds do not enter it, and it may lie
\* outside [low_hz, high_hz].
C4_PeakOverWholeSpectrum ==
    (BandDone /\ ~out.raised) =>
        \E k \in 0..(OneSidedBins - 1) :
            /\ \A j \in 0..(OneSidedBins - 1) : BinValue(j) <= BinValue(k)
            /\ \A j \in 0..(k - 1) : BinValue(j) < BinValue(k)
            /\ frequency[Self] = Rat(k * SAMPLING_FREQUENCY, BinSpacingLen)

\* C4 witness: the peak is reported although it lies above the band, while a
\* smaller bin lies inside the band.
C4_Witness ==
    /\ BandDone /\ ~out.raised
    /\ StrictlyInside # {}
    /\ \E k \in StrictlyInside : BinValue(k) > 0
    /\ RatLess(Rat(inp.upper_frequency, 1), frequency[Self])

-----------------------------------------------------------------------------
(* Specification SpecProcess: process called again and again on one        *)
(* processor, each call on any recording and with either method.           *)

\* A spectrum of WINDOW bins that is zero but for the bins of `peaks`, a set
\* of <<bin, magnitude>>, each mirrored.
Peaks(peaks) ==
    Array([k \in 1..WINDOW |->
        IF \E q \in peaks : q[1] = k - 1 \/ q[1] = WINDOW - (k - 1)
        THEN (CHOOSE q \in peaks : q[1] = k - 1 \/ q[1] = WINDOW - (k - 1))[2]
        ELSE 0])

\* The recordings of the model, at 200 ticks to the second: two long enough
\* for the window (a tremor in the band; a peak above the band), one too
\* short for it, one whose span is a whole number of periods, and one frame
\* without a time index.
Recordings ==
    [steady |-> Recording(<<0, 601>>, TRUE, Peaks({<<13, 3>>})),
     rapid |-> Recording(<<2, 331, 705>>, TRUE, Peaks({<<8, 1>>, <<40, 2>>})),
     brief |-> Recording(<<0, 101>>, TRUE, Peaks({<<5, 2>>})),
     aligned |-> Recording(<<0, 600>>, TRUE, Peaks({<<13, 3>>})),
     malformed |-> Recording(<<0, 601>>, FALSE, Peaks({<<13, 3>>}))]

Methods == {"fft", "welch"}

InitProcess ==
    /\ inp = None
    /\ out = None
    /\ amplitude = Fresh
    /\ frequency = Fresh
    /\ pc = Idle
    /\ log = <<>>
    /\ hist = <<>>

Process ==
    /\ pc[Main] = "ready"
    /\ Len(hist) < MaxCalls
    /\ \E id \in DOMAIN Recordings, method \in Methods :
        \E r \in {process(Recordings[id], method)} :
            /\ inp' = [op |-> "process", data_frame |-> id, method |-> method]
            /\ out' = r
            /\ amplitude' = Stored(amplitude, Self, r.fields, "amplitude")
            /\ frequency' = Stored(frequency, Self, r.fields, "frequency")
            /\ log' = log \o r.logged
            /\ hist' = Append(hist, [data_frame |-> id, method |-> method,
                                     outcome |-> r.outcome])
    /\ UNCHANGED pc

NextProcess == Process

SpecProcess == InitProcess /\ [][NextProcess]_vars

LastCall == hist[Len(hist)]

\* C1 as stated: when a stage run by process fails, the caller of process
\* sees an error, and process does not end as though it had succeeded with
\* the failure only in the log.
C1_Original_FailureSurfaces ==
    (Len(hist) >= 1 /\ "failure" \in DOMAIN out) =>
        /\ out.outcome = "raised"
        /\ out.logged = <<>>

\* C2 as stated, for a call that follows another: once the latest call of
\* process has returned, amplitude and frequency are both the result computed
\* from that call's recording, never what an earlier call left.
C2_Original_FieldsFromLatestCall ==
    (Len(hist) >= 2 /\ LastCall.outcome = "returned") =>
        /\ ~IsError(out.fields)
        /\ amplitude[Self] = out.fields.amplitude
        /\ frequency[Self] = out.fields.frequency

-----------------------------------------------------------------------------
(* Specification SpecConcurrent: two threads, each calling process once on *)
(* its own recording.  The callers either share one processor freely,      *)
(* share it and serialise their calls, or use a processor each.  A call is *)
(* split where the interpreter can switch threads: between the stages,     *)
(* which work on the call's own frames, and the two assignments to the     *)
(* processor's fields.                                                     *)

Threads == {"t1", "t2"}
Processors == {"tp", "tp2"}
Disciplines == {"shared", "serialized", "own"}

InCall(t) == pc[t] \in {"first", "second"}

InitConcurrent ==
    /\ inp \in
        {[discipline |-> d,
          call |-> [t \in Threads |->
                       [data_frame |-> IF t = "t1" THEN ids[1] ELSE ids[2],
                        method |-> IF t = "t1" THEN ms[1] ELSE ms[2],
                        self |-> IF d = "own" /\ t = "t2" THEN "tp2" ELSE "tp"]]] :
            d \in Disciplines,
            ids \in {x \in (DOMAIN Recordings) \X (DOMAIN Recordings) : x[1] # x[2]},
            ms \in Methods \X Methods}
    /\ out = [t \in Threads |-> None]
    /\ amplitude = [p \in Processors |-> Rat(0, 1)]
    /\ frequency = [p \in Processors |-> Rat(0, 1)]
    /\ pc = [t \in Threads |-> "ready"]
    /\ log = <<>>
    /\ hist = <<>>

\* The thread enters process and runs the stages; a stage that raises takes
\* it to the handlers and out of the call.
Begin(t) ==
    /\ pc[t] = "ready"
    /\ inp.discipline = "serialized" => \A u \in Threads : ~InCall(u)
    /\ \E r \in {process(Recordings[inp.call[t].data_frame], inp.call[t].method)} :
        /\ out' = [out EXCEPT ![t] = r]
        /\ IF "amplitude" \in DOMAIN r.fields \/ "frequency" \in DOMAIN r.fields
           THEN /\ pc' = [pc EXCEPT ![t] = "first"]
                /\ UNCHANGED <<log, hist>>
           ELSE /\ pc' = [pc EXCEPT ![t] = "done"]
                /\ log' = log \o r.logged
                /\ hist' = Append(hist, [thread |-> t, outcome |-> r.outcome])
    /\ UNCHANGED <<inp, amplitude, frequency>>

\* The strategy's first assignment: self.amplitude for tremor_amplitude,
\* self.frequency for tremor_amplitude_by_welch.
FirstAssignment(t) ==
    /\ pc[t] = "first"
    /\ IF inp.call[t].method = "fft"
       THEN /\ amplitude' = Stored(amplitude, inp.call[t].self, out[t].fields, "amplitude")
            /\ UNCHANGED frequency
       ELSE /\ frequency' = Stored(frequency, inp.call[t].self, out[t].fields, "frequency")
            /\ UNCHANGED amplitude
    /\ pc' = [pc EXCEPT ![t] = "second"]
    /\ UNCHANGED <<inp, out, log, hist>>

\* The strategy's second assignment, and the end of the call.
SecondAssignment(t) ==
    /\ pc[t] = "second"
    /\ IF inp.call[t].method = "fft"
       THEN /\ frequency' = Stored(frequency, inp.call[t].self, out[t].fields, "frequency")
            /\ UNCHANGED amplitude
       ELSE /\ amplitude' = Stored(amplitude, inp.call[t].self, out[t].fields, "amplitude")
            /\ UNCHANGED frequency
    /\ pc' = [pc EXCEPT ![t] = "done"]
    /\ log' = log \o out[t].logged
    /\ hist' = Append(hist, [thread |-> t, outcome |-> out[t].outcome])
    /\ UNCHANGED <<inp, out>>

NextConcurrent ==
    \E t \in Threads : Begin(t) \/ FirstAssignment(t) \/ SecondAssignment(t)

SpecConcurrent == InitConcurrent /\ [][NextConcurrent]_vars

Quiescent == \A t \in Threads : ~InCall(t)

\* Thread t's call computed a full result and left it on processor p.
LeftBy(t, p) ==
    /\ pc[t] = "done"
    /\ inp.call[t].self = p
    /\ "amplitude" \in DOMAIN out[t].fields /\ "frequency" \in DOMAIN out[t].fields
    /\ amplitude[p] = out[t].fields.amplitude
    /\ frequency[p] = out[t].fields.frequency

UntouchedSinceInit(p) == amplitude[p] = Rat(0, 1) /\ frequency[p] = Rat(0, 1)

\* C9: when the two calls are serialised, or each recording has a processor
\* of its own, then with no call under way the amplitude and the frequency
\* of every processor come from one and the same run; two calls that share
\* a processor without serialising can leave the amplitude of one recording
\* beside the frequency of the other (the witness).
C9_SameRunUnlessRaced ==
    (inp.discipline \in {"serialized", "own"} /\ Quiescent) =>
        \A p \in Processors : UntouchedSinceInit(p) \/ \E t \in Threads : LeftBy(t, p)

\* C9 witness: both unserialised calls on the shared processor have ended,
\* and it holds the amplitude of t1's recording and the frequency of t2's.
C9_Witness ==
    /\ inp.discipline = "shared"
    /\ \A t \in Threads : pc[t] = "done" /\ ~IsError(out[t].fields)
    /\ amplitude["tp"] = out["t1"].fields.amplitude
    /\ frequency["tp"] = out["t2"].fields.frequency
    /\ out["t1"].fields.amplitude # out["t2"].fields.amplitude
    /\ out["t1"].fields.frequency # out["t2"].fields.frequency

=============================================================================
